---- MODULE Spec2Model ----
(***************************************************************************)
(* Model of the native application menu synchronisation of                 *)
(* src/app/src/AppPrimaryMenu.js: the accelerator resolver, the menu tree  *)
(* builder, the menu lifecycle manager and the shadow accelerator matcher. *)
(*                                                                         *)
(* Representation of JavaScript values                                     *)
(*   - a string that may also be undefined is a record: Str(tokens) holds  *)
(*     the string as the sequence of its '+'-separated tokens              *)
(*     ("Ctrl+Number" is Str(<<"Ctrl", "Number">>), '' is Str(<<>>));      *)
(*     Undefined and Null are records of their own                         *)
(*   - an array that may also be null is the record List(elements)        *)
(*   - an object is a record; a property the object does not have is a     *)
(*     field the record does not have (Prop reads it as Undefined)         *)
(*   - a native Menu object is a reference (a positive id) into the heap   *)
(*     `menus`; NoMenu is the null reference                               *)
(***************************************************************************)
EXTENDS Integers, Sequences, FiniteSets, TLC

VARIABLES
  isDarwin,               \* process.platform === 'darwin'
  store,                  \* mailboxStore: orderedMailboxes, activeMailbox, activeServiceType
  accounts,               \* which accounts exist for the store to hold: "complete" or "sparse"
  lastAccelerators,       \* this._lastAccelerators
  lastMailboxes,          \* this._lastMailboxes
  lastActiveMailbox,      \* this._lastActiveMailbox
  lastActiveServiceType,  \* this._lastActiveServiceType
  lastMenu,               \* this._lastMenu (a menu reference)
  appMenu,                \* the menu given to Menu.setApplicationMenu
  menus,                  \* native menus built and not destroyed: id -> item tree
  registered,             \* electronLocalshortcut holds the hidden zoom-in shortcut
  pc,                     \* position inside updateApplicationMenu, "idle" outside
  prevMenu,               \* the local const lastMenu of updateApplicationMenu
  event,                  \* the notification or call handled last
  lastUpdate,             \* how the latest updateApplicationMenu ended
  calls,                  \* collaborator calls made while handling `event`
  clicked,                \* click handlers invoked while handling `event`
  tested,                 \* entries handed to the matcher while handling `event`
  pInput,                 \* pure-function check: the observed input
  pTemplate,              \* pure-function check: the accelerator template
  pIndex,                 \* pure-function check: the list position
  pAccel,                 \* pure-function check: the accelerator string under test
  pResult,                \* pure-function check: the matcher's answer
  bArgs,                  \* builder check: the arguments of build
  bResult,                \* builder check: the tree built, its walk and the self-matches
  composeButton,          \* GmailApi: document.querySelector found the compose button
  data,                   \* GmailApi: the fields of data that are given
  dom,                    \* GmailApi: the elements of the newest compose window in the page
  cpc,                    \* GmailApi: which timer of composeMessage is pending
  retries,                \* GmailApi: let retries
  retry,                  \* GmailApi: const retry, the interval: "none", "running" or "cleared"
  attempts,               \* GmailApi: calls of populateNewestComposeWindow so far
  filled,                 \* GmailApi: the compose elements written to
  focus                   \* GmailApi: the element whose focus is scheduled, and the focused one

vars == << isDarwin, store, accounts, lastAccelerators, lastMailboxes, lastActiveMailbox,
           lastActiveServiceType, lastMenu, appMenu, menus, registered, pc,
           prevMenu, event, lastUpdate, calls, clicked, tested,
           pInput, pTemplate, pIndex, pAccel, pResult, bArgs, bResult,
           composeButton, data, dom, cpc, retries, retry, attempts, filled, focus >>

lifecycleVars == << isDarwin, store, accounts, lastAccelerators, lastMailboxes, lastActiveMailbox,
                    lastActiveServiceType, lastMenu, appMenu, menus, registered, pc,
                    prevMenu, event, lastUpdate, calls, clicked, tested >>

pureVars == << pInput, pTemplate, pIndex, pAccel, pResult, bArgs, bResult >>

composeVars == << composeButton, data, dom, cpc, retries, retry, attempts, filled, focus >>

(***************************************************************************)
(* Bounds                                                                  *)
(***************************************************************************)
MaxMailboxes == 2      \* longest ordered account list the store holds
MaxLiveMenus == 3      \* native menus alive at once before the model stops building

(***************************************************************************)
(* JavaScript values                                                       *)
(***************************************************************************)
Undefined == [undefined |-> TRUE]
Null == [null |-> TRUE]
NoMenu == 0

Str(tokens) == [str |-> tokens]

List(elements) == [list |-> elements]

IsStr(v) == DOMAIN v = {"str"}

Prop(o, k) == IF k \in DOMAIN o THEN o[k] ELSE Undefined

\* !v for the values that occur: undefined, null and '' are falsy
Falsy(v) == v = Undefined \/ v = Null \/ v = Str(<<>>)

(***************************************************************************)
(* Strings.  A token is a maximal run of characters between '+' signs.     *)
(***************************************************************************)
\* String.prototype.toLowerCase on one token
Lower(tok) ==
  CASE tok \in {"Number", "NUMBER", "number"} -> "number"
    [] tok \in {"Ctrl", "CTRL", "ctrl"} -> "ctrl"
    [] tok \in {"Control", "control"} -> "control"
    [] tok \in {"Shift", "shift"} -> "shift"
    [] tok \in {"Alt", "alt"} -> "alt"
    [] tok \in {"Cmd", "cmd"} -> "cmd"
    [] tok \in {"Command", "command"} -> "command"
    [] tok \in {"CmdOrCtrl", "cmdorctrl"} -> "cmdorctrl"
    [] tok \in {"CommandOrControl", "commandorcontrol"} -> "commandorcontrol"
    [] tok \in {"Plus", "plus"} -> "plus"
    [] OTHER -> tok   \* other tokens are never compared in lower case

\* String(n) for the numbers the resolver produces (index + 1, index in 0..9)
NumberToString(n) == << "1", "2", "3", "4", "5", "6", "7", "8", "9", "10" >>[n]

\* the ten one-character strings of the matcher's expansion
DigitChars == << "0", "1", "2", "3", "4", "5", "6", "7", "8", "9" >>

\* position of the first element a test accepts, 0 when there is none; tests
\* is the sequence of the test's answers, element by element
FirstIndex(tests) ==
  LET hits == { i \in 1..Len(tests) : tests[i] }
  IN IF hits = {} THEN 0 ELSE CHOOSE i \in hits : \A j \in hits : i <= j

\* s.replace('Number', by): the first occurrence only, case-sensitive
ReplaceNumber(s, by) ==
  LET i == FirstIndex([ k \in 1..Len(s.str) |-> s.str[k] = "Number" ])
  IN IF i = 0 THEN s ELSE Str([s.str EXCEPT ![i] = by])

\* s.replace(/number/i, by): the first occurrence only, case-insensitive
ReplaceNumberIgnoreCase(s, by) ==
  LET i == FirstIndex([ k \in 1..Len(s.str) |-> Lower(s.str[k]) = "number" ])
  IN IF i = 0 THEN s ELSE Str([s.str EXCEPT ![i] = by])

\* s.toLowerCase().indexOf('number') !== -1
ContainsNumber(s) == \E i \in 1..Len(s.str) : Lower(s.str[i]) = "number"

(***************************************************************************)
(* Accelerator resolver                                                    *)
(***************************************************************************)
\* buildAcceleratorStringForIndex refusing the last position: index > 8
buildAcceleratorStringForIndexUpToEight(accelerator, index) ==
  IF index < 0 \/ index > 8
    THEN Undefined
    ELSE ReplaceNumber(IF Falsy(accelerator) THEN Str(<<>>) ELSE accelerator,
                       NumberToString(index + 1))

buildAcceleratorStringForIndex(accelerator, index) ==
  IF index < 0 \/ index > 9
    THEN Undefined
    ELSE ReplaceNumber(IF Falsy(accelerator) THEN Str(<<>>) ELSE accelerator,
                       NumberToString(index + 1))


(***************************************************************************)
(* Data the collaborators supply                                           *)
(***************************************************************************)
\* the accelerators of the settings store as shipped
DefaultAccelerators ==
  [ preferences |-> Str(<<"CmdOrCtrl", ",">>),
    composeMail |-> Str(<<"CmdOrCtrl", "N">>),
    showWindow |-> Str(<<"CmdOrCtrl", "Shift", "N">>),
    hideWindow |-> Str(<<"CmdOrCtrl", "W">>),
    hide |-> Str(<<"CmdOrCtrl", "H">>),
    hideOthers |-> Str(<<"Alt", "CmdOrCtrl", "H">>),
    quit |-> Str(<<"CmdOrCtrl", "Q">>),
    undo |-> Str(<<"CmdOrCtrl", "Z">>),
    redo |-> Str(<<"CmdOrCtrl", "Shift", "Z">>),
    cut |-> Str(<<"CmdOrCtrl", "X">>),
    copy |-> Str(<<"CmdOrCtrl", "C">>),
    paste |-> Str(<<"CmdOrCtrl", "V">>),
    pasteAndMatchStyle |-> Str(<<"CmdOrCtrl", "Shift", "V">>),
    selectAll |-> Str(<<"CmdOrCtrl", "A">>),
    find |-> Str(<<"CmdOrCtrl", "F">>),
    findNext |-> Str(<<"CmdOrCtrl", "G">>),
    toggleFullscreen |-> Str(<<"Ctrl", "Cmd", "F">>),
    toggleSidebar |-> Str(<<"CmdOrCtrl", "Alt", "S">>),
    toggleMenu |-> Str(<<"CmdOrCtrl", "/">>),
    navigateBack |-> Str(<<"CmdOrCtrl", "[">>),
    navigateForward |-> Str(<<"CmdOrCtrl", "]">>),
    zoomIn |-> Str(<<"CmdOrCtrl", "Plus">>),
    zoomInDefault |-> Str(<<"CmdOrCtrl", "Plus">>),
    zoomOut |-> Str(<<"CmdOrCtrl", "-">>),
    zoomReset |-> Str(<<"CmdOrCtrl", "0">>),
    reload |-> Str(<<"CmdOrCtrl", "R">>),
    developerTools |-> Str(<<"CmdOrCtrl", "Alt", "J">>),
    reloadWavebox |-> Str(<<"CmdOrCtrl", "Shift", "R">>),
    developerToolsWavebox |-> Str(<<"CmdOrCtrl", "Alt", "Shift", "J">>),
    minimize |-> Str(<<"CmdOrCtrl", "M">>),
    cycleWindows |-> Str(<<"CmdOrCtrl", "Y">>),
    previousMailbox |-> Str(<<"CmdOrCtrl", "<">>),
    nextMailbox |-> Str(<<"CmdOrCtrl", ">">>),
    mailboxIndex |-> Str(<<"CmdOrCtrl", "Number">>),
    servicePrevious |-> Str(<<"CmdOrCtrl", "Alt", "<">>),
    serviceNext |-> Str(<<"CmdOrCtrl", "Alt", ">">>),
    serviceIndex |-> Str(<<"CmdOrCtrl", "Alt", "Number">>) ]

\* accelerators a user has edited: zoom-in moved off its default, Find bound to
\* the keystroke of Undo, the account template written with Ctrl, the service
\* template cleared
CustomAccelerators ==
  [ DefaultAccelerators EXCEPT
      !.zoomIn = Str(<<"CmdOrCtrl", "I">>),
      !.undo = Str(<<"Ctrl", "Z">>),
      !.find = Str(<<"Ctrl", "Z">>),
      !.preferences = Str(<<"Ctrl", ",">>),
      !.mailboxIndex = Str(<<"Ctrl", "Number">>),
      !.serviceIndex = Str(<<>>) ]

AcceleratorMaps == { DefaultAccelerators, CustomAccelerators }

\* service type tags
DEFAULT == Str(<<"DEFAULT">>)
CALENDAR == Str(<<"CALENDAR">>)

ServiceDefault == [ type |-> DEFAULT, humanizedType |-> "Inbox" ]
ServiceCalendar == [ type |-> CALENDAR, humanizedType |-> "Calendar" ]

\* two accounts that agree in display name and enabled services, and one
\* with an additional service
MailboxWork1 ==
  [ id |-> 1, displayName |-> "Work", enabledServiceTypes |-> <<DEFAULT>>,
    hasAdditionalServices |-> FALSE, enabledServices |-> <<ServiceDefault>> ]
MailboxWork2 ==
  [ id |-> 2, displayName |-> "Work", enabledServiceTypes |-> <<DEFAULT>>,
    hasAdditionalServices |-> FALSE, enabledServices |-> <<ServiceDefault>> ]
MailboxHome ==
  [ id |-> 3, displayName |-> "Home", enabledServiceTypes |-> <<DEFAULT, CALENDAR>>,
    hasAdditionalServices |-> TRUE, enabledServices |-> <<ServiceDefault, ServiceCalendar>> ]

\* an account whose optional fields are absent: no display name, and additional
\* services reported without a list of them
MailboxBare ==
  [ id |-> 4, enabledServiceTypes |-> <<DEFAULT>>, hasAdditionalServices |-> TRUE ]

AllMailboxes == { MailboxWork1, MailboxWork2, MailboxHome }

\* the accounts of a store that holds an account with absent optional fields
SparseMailboxes == { MailboxWork1, MailboxBare }

Range(seq) == { seq[i] : i \in 1..Len(seq) }

\* the ordered lists of at most n of the given accounts: no account twice
ListsOf(mailboxes, n) ==
  { l \in UNION { [1..k -> mailboxes] : k \in 0..n } :
      \A i, j \in 1..Len(l) : i # j => l[i].id # l[j].id }

\* the ordered account lists: no account twice
MailboxLists == ListsOf(AllMailboxes, MaxMailboxes)

\* what getActiveMailbox / getActiveServiceType / orderedMailboxes can return
\* together for the given account lists: the active account is one of the
\* list, the active service type one of its types
StatesOf(lists) ==
  { [ mailboxes |-> List(x[1]), activeMailbox |-> x[2], activeServiceType |-> x[3] ] :
      x \in { y \in lists \X (UNION { Range(l) : l \in lists } \cup {Null}) \X {DEFAULT, CALENDAR} :
               /\ y[2] # Null => y[2] \in Range(y[1])
               /\ y[3] \in (IF y[2] = Null THEN {DEFAULT} ELSE Range(y[2].enabledServiceTypes)) } }

StoreStates == StatesOf(MailboxLists)

SparseStoreStates == StatesOf(ListsOf(SparseMailboxes, MaxMailboxes))

\* the states the store can take, given the accounts that exist
StoreUniverse == IF accounts = "sparse" THEN SparseStoreStates ELSE StoreStates


(***************************************************************************)
(* Menu tree builder                                                       *)
(***************************************************************************)
\* this._selectors.<name>
Selector(name) == [ fn |-> name, args |-> <<>> ]

\* () => { this._selectors.changeMailbox(...args) }
ChangeMailbox(args) == [ fn |-> "changeMailbox", args |-> args ]

Separator == [ type |-> "separator" ]

ClickItem(label, selector, accelerator) ==
  [ label |-> label, click |-> Selector(selector), accelerator |-> accelerator ]

LinkItem(label, selector) == [ label |-> label, click |-> Selector(selector) ]

RoleItem(label, role, accelerator) ==
  [ label |-> label, role |-> role, accelerator |-> accelerator ]

\* FilterUndefined keeping every element
FilterNothing(items) == items

\* array.filter((item) => item !== undefined)
FilterUndefined(items) == SelectSeq(items, LAMBDA item : item # Undefined)

\* HasAdditionalServices without the test of the flag
HasAdditionalServicesIgnoringFlag(activeMailbox) == activeMailbox # Null

\* activeMailbox && activeMailbox.hasAdditionalServices
HasAdditionalServices(activeMailbox) ==
  /\ activeMailbox # Null
  /\ "hasAdditionalServices" \in DOMAIN activeMailbox
  /\ activeMailbox.hasAdditionalServices

\* build throws a TypeError: a property of null is read (accelerators.preferences,
\* mailboxes.length) or map is called on an absent enabledServices
BuildThrows(accelerators, mailboxes, activeMailbox, activeServiceType) ==
  \/ accelerators = Null
  \/ mailboxes = Null
  \/ /\ HasAdditionalServices(activeMailbox)
     /\ "enabledServices" \notin DOMAIN activeMailbox

ApplicationSubmenu(accelerators) ==
  FilterUndefined(<<
    LinkItem("About", "aboutDialog"),
    LinkItem("Check for Update", "checkForUpdate"),
    Separator,
    LinkItem("Add Account", "addAccount"),
    ClickItem("Preferences", "preferences", Prop(accelerators, "preferences")),
    Separator,
    ClickItem("Compose Mail", "composeMail", Prop(accelerators, "composeMail")),
    Separator,
    IF isDarwin THEN [ label |-> "Services", role |-> "services", submenu |-> <<>> ] ELSE Undefined,
    IF isDarwin THEN Separator ELSE Undefined,
    ClickItem("Show Window", "showWindow", Prop(accelerators, "showWindow")),
    ClickItem("Hide Window", "closeWindow", Prop(accelerators, "hideWindow")),
    RoleItem("Hide", "hide", Prop(accelerators, "hide")),
    RoleItem("Hide Others", "hideothers", Prop(accelerators, "hideOthers")),
    [ label |-> "Show All", role |-> "unhide" ],
    Separator,
    ClickItem("Quit", "fullQuit", Prop(accelerators, "quit"))
  >>)

EditSubmenu(accelerators) ==
  <<
    RoleItem("Undo", "undo", Prop(accelerators, "undo")),
    RoleItem("Redo", "redo", Prop(accelerators, "redo")),
    Separator,
    RoleItem("Cut", "cut", Prop(accelerators, "cut")),
    RoleItem("Copy", "copy", Prop(accelerators, "copy")),
    RoleItem("Paste", "paste", Prop(accelerators, "paste")),
    RoleItem("Paste and match style", "pasteandmatchstyle", Prop(accelerators, "pasteAndMatchStyle")),
    RoleItem("Select All", "selectall", Prop(accelerators, "selectAll")),
    Separator,
    ClickItem("Find", "find", Prop(accelerators, "find")),
    ClickItem("Find Next", "findNext", Prop(accelerators, "findNext"))
  >>

DeveloperSubmenu(accelerators) ==
  <<
    ClickItem("Developer Tools", "devTools", Prop(accelerators, "developerTools")),
    Separator,
    ClickItem("Reload Wavebox Window", "reloadWavebox", Prop(accelerators, "reloadWavebox")),
    ClickItem("Wavebox Developer Tools", "devToolsWavebox", Prop(accelerators, "developerToolsWavebox"))
  >>

ViewSubmenu(accelerators) ==
  FilterUndefined(<<
    ClickItem("Toggle Full Screen", "fullscreenToggle", Prop(accelerators, "toggleFullscreen")),
    ClickItem("Toggle Sidebar", "sidebarToggle", Prop(accelerators, "toggleSidebar")),
    IF isDarwin THEN Undefined
                ELSE ClickItem("Toggle Menu", "menuToggle", Prop(accelerators, "toggleMenu")),
    Separator,
    ClickItem("Navigate Back", "mailboxNavBack", Prop(accelerators, "navigateBack")),
    ClickItem("Navigate Forward", "mailboxNavForward", Prop(accelerators, "navigateForward")),
    Separator,
    ClickItem("Zoom In", "zoomIn", Prop(accelerators, "zoomIn")),
    ClickItem("Zoom Out", "zoomOut", Prop(accelerators, "zoomOut")),
    ClickItem("Reset Zoom", "zoomReset", Prop(accelerators, "zoomReset")),
    Separator,
    ClickItem("Reload", "reload", Prop(accelerators, "reload")),
    [ label |-> "Developer", submenu |-> DeveloperSubmenu(accelerators) ]
  >>)

\* MailboxRadioItems resolving the accelerator for position index + 1
MailboxRadioItemsOneBased(accelerators, mailboxes, activeMailbox) ==
  [ i \in 1..Len(mailboxes.list) |->
      [ label |-> IF "displayName" \in DOMAIN mailboxes.list[i] /\ mailboxes.list[i].displayName # ""
                    THEN mailboxes.list[i].displayName ELSE "Untitled",
        type |-> "radio",
        checked |-> activeMailbox # Null /\ mailboxes.list[i].id = activeMailbox.id,
        click |-> ChangeMailbox(<< mailboxes.list[i].id >>),
        accelerator |->
          buildAcceleratorStringForIndex(Prop(accelerators, "mailboxIndex"), i) ] ]

\* MailboxRadioItems checking the first entry whatever the active account is
MailboxRadioItemsFirstChecked(accelerators, mailboxes, activeMailbox) ==
  [ i \in 1..Len(mailboxes.list) |->
      [ label |-> IF "displayName" \in DOMAIN mailboxes.list[i] /\ mailboxes.list[i].displayName # ""
                    THEN mailboxes.list[i].displayName ELSE "Untitled",
        type |-> "radio",
        checked |-> i = 1,
        click |-> ChangeMailbox(<< mailboxes.list[i].id >>),
        accelerator |->
          buildAcceleratorStringForIndex(Prop(accelerators, "mailboxIndex"), i - 1) ] ]

\* one radio entry per account: mailboxes.map((mailbox, index) => ...)
MailboxRadioItems(accelerators, mailboxes, activeMailbox) ==
  [ i \in 1..Len(mailboxes.list) |->
      [ label |-> IF "displayName" \in DOMAIN mailboxes.list[i] /\ mailboxes.list[i].displayName # ""
                    THEN mailboxes.list[i].displayName ELSE "Untitled",
        type |-> "radio",
        checked |-> activeMailbox # Null /\ mailboxes.list[i].id = activeMailbox.id,
        click |-> ChangeMailbox(<< mailboxes.list[i].id >>),
        accelerator |->
          buildAcceleratorStringForIndex(Prop(accelerators, "mailboxIndex"), i - 1) ] ]

\* one radio entry per enabled service of the active account
ServiceRadioItems(accelerators, activeMailbox, activeServiceType) ==
  [ i \in 1..Len(activeMailbox.enabledServices) |->
      [ label |-> activeMailbox.enabledServices[i].humanizedType,
        type |-> "radio",
        checked |-> activeMailbox.enabledServices[i].type = activeServiceType,
        click |-> ChangeMailbox(<< activeMailbox.id, activeMailbox.enabledServices[i].type >>),
        accelerator |->
          buildAcceleratorStringForIndex(Prop(accelerators, "serviceIndex"), i - 1) ] ]

WindowSubmenu(accelerators, mailboxes, activeMailbox, activeServiceType) ==
  LET hasServices == HasAdditionalServices(activeMailbox)
  IN
  << RoleItem("Minimize", "minimize", Prop(accelerators, "minimize")),
     ClickItem("Cycle Windows", "cycleWindows", Prop(accelerators, "cycleWindows")) >>
  \o (IF Len(mailboxes.list) <= 1 THEN <<>> ELSE
       << Separator,
          ClickItem("Previous Account", "prevMailbox", Prop(accelerators, "previousMailbox")),
          ClickItem("Next Account", "nextMailbox", Prop(accelerators, "nextMailbox")) >>)
  \o (IF Len(mailboxes.list) <= 1 THEN <<>> ELSE << Separator >>)
  \o (IF Len(mailboxes.list) <= 1 THEN <<>>
                             ELSE MailboxRadioItems(accelerators, mailboxes, activeMailbox))
  \o (IF hasServices THEN
       << Separator,
          ClickItem("Previous Service", "prevService", Prop(accelerators, "servicePrevious")),
          ClickItem("Next Service", "nextService", Prop(accelerators, "serviceNext")) >>
      ELSE <<>>)
  \o (IF hasServices THEN << Separator >> ELSE <<>>)
  \o (IF hasServices THEN ServiceRadioItems(accelerators, activeMailbox, activeServiceType)
                     ELSE <<>>)

HelpSubmenu ==
  <<
    LinkItem("Wavebox Website", "waveboxWebsite"),
    LinkItem("Wavebox Blog", "waveboxBlog"),
    LinkItem("Wavebox on GitHub", "waveboxGithub"),
    Separator,
    LinkItem("Support Center", "supportCenter"),
    LinkItem("What's new", "whatsNew"),
    Separator,
    LinkItem("Privacy", "privacy"),
    LinkItem("EULA", "eula")
  >>

\* the template handed to Menu.buildFromTemplate, when build does not throw
build(accelerators, mailboxes, activeMailbox, activeServiceType) ==
  <<
    [ label |-> IF isDarwin THEN "Application" ELSE "File",
      submenu |-> ApplicationSubmenu(accelerators) ],
    [ label |-> "Edit", submenu |-> EditSubmenu(accelerators) ],
    [ label |-> "View", submenu |-> ViewSubmenu(accelerators) ],
    [ label |-> "Window", role |-> "window",
      submenu |-> WindowSubmenu(accelerators, mailboxes, activeMailbox, activeServiceType) ],
    [ label |-> "Help", role |-> "help", submenu |-> HelpSubmenu ]
  >>


(***************************************************************************)
(* Shadow accelerator matcher                                              *)
(***************************************************************************)
\* the outcome of a call that throws
Thrown == [ threw |-> TRUE ]

Threw(result) == "threw" \in DOMAIN result

Without(f, k) == [ x \in DOMAIN f \ {k} |-> f[x] ]

ModifierNames ==
  { "ctrl", "control", "shift", "alt", "cmd", "command", "cmdorctrl", "commandorcontrol" }

\* the descriptor field a modifier token sets
ModifierField(lowerToken) ==
  CASE lowerToken \in {"ctrl", "control"} -> "ctrl"
    [] lowerToken = "shift" -> "shift"
    [] lowerToken = "alt" -> "alt"
    [] lowerToken \in {"cmd", "command"} -> "metaKey"
    [] lowerToken \in {"cmdorctrl", "commandorcontrol"} -> IF isDarwin THEN "metaKey" ELSE "ctrl"

RECURSIVE ParseTokens(_, _)
ParseTokens(tokens, keyEvent) ==
  IF Len(tokens) = 0 THEN keyEvent
  ELSE LET token == Head(tokens)
           lower == Lower(token)
       IN IF lower \in ModifierNames
            THEN IF ModifierField(lower) \in DOMAIN keyEvent
                   THEN Thrown
                   ELSE ParseTokens(Tail(tokens), keyEvent @@ (ModifierField(lower) :> TRUE))
          ELSE IF "key" \in DOMAIN keyEvent THEN Thrown
          ELSE IF lower = "plus" THEN ParseTokens(Tail(tokens), keyEvent @@ ("key" :> "+"))
          ELSE IF Len(token) = 1 THEN ParseTokens(Tail(tokens), keyEvent @@ ("key" :> token))
          ELSE Thrown

\* toKeyEvent of keyboardevent-from-electron-accelerator: the key and one flag
\* per modifier named; it throws on a value that is no string, on a repeated
\* modifier, on a second key and on a key name it does not know
toKeyEvent(accelerator) ==
  IF ~IsStr(accelerator) THEN Thrown ELSE ParseTokens(accelerator.str, <<>>)

\* !isNaN(parseInt(key)) for a one-character key
IsDigitKey(key) == key \in Range(DigitChars)

\* DigitKeyToCode without the rewrite: a digit stays in the key field
DigitKeyKept(keyEvent) == keyEvent

\* if (!isNaN(parseInt(keyEvent.key))) { keyEvent.code = 'Digit' + keyEvent.key; delete keyEvent.key }
DigitKeyToCode(keyEvent) ==
  IF "key" \in DOMAIN keyEvent /\ IsDigitKey(keyEvent.key)
    THEN Without(keyEvent, "key") @@ ("code" :> "Digit" \o keyEvent.key)
    ELSE keyEvent

\* if (keyEvent.metaKey !== undefined) { keyEvent.meta = keyEvent.metaKey; delete keyEvent.metaKey }
MetaKeyToMeta(keyEvent) ==
  IF "metaKey" \in DOMAIN keyEvent
    THEN Without(keyEvent, "metaKey") @@ ("meta" :> keyEvent.metaKey)
    ELSE keyEvent

acceleratorToInputKeyEvent(accelerator) ==
  LET keyEvent == toKeyEvent(accelerator)
  IN IF Threw(keyEvent) THEN Thrown ELSE MetaKeyToMeta(DigitKeyToCode(keyEvent))

\* the callback of the expansion, (n) => { accelerator.replace(/number/i, n) }:
\* a block body without a return statement, so the replaced string is dropped
ExpandCandidate(accelerator, n) ==
  LET replaced == ReplaceNumberIgnoreCase(accelerator, n)
  IN Undefined

Expand(accelerator) ==
  IF ContainsNumber(accelerator)
    THEN [ i \in 1..Len(DigitChars) |-> ExpandCandidate(accelerator, DigitChars[i]) ]
    ELSE << accelerator >>

\* CandidateMatches without the catch turning a failure into false: a
\* candidate that cannot be parsed is taken for a match
CandidateMatchesOnFailure(input, accel) ==
  LET parsed == acceleratorToInputKeyEvent(accel)
  IN IF Threw(parsed)
       THEN TRUE
       ELSE \A k \in DOMAIN DigitKeyToCode(parsed) :
              k \in DOMAIN input /\ input[k] = DigitKeyToCode(parsed)[k]

\* the callback of expanded.find: every field of the target equals the input's
CandidateMatches(input, accel) ==
  LET parsed == acceleratorToInputKeyEvent(accel)
      targetKeyEvent == IF Threw(parsed) THEN parsed ELSE DigitKeyToCode(parsed)
  IN IF Threw(parsed)
       THEN FALSE
       ELSE \A k \in DOMAIN targetKeyEvent :
              k \in DOMAIN input /\ input[k] = targetKeyEvent[k]

matchInputEventToAccelerator(input, accelerator) ==
  IF Falsy(accelerator) THEN FALSE
  ELSE LET expanded == Expand(accelerator)
           i == FirstIndex([ k \in 1..Len(expanded) |-> CandidateMatches(input, expanded[k]) ])
           match == IF i = 0 THEN Undefined ELSE expanded[i]
       IN ~Falsy(match)

\* MenuTool.allAcceleratorMenuItems: the entries that carry an accelerator, by
\* a recursive walk of all submenus in tree order
RECURSIVE AcceleratorItems(_)
AcceleratorItems(items) ==
  IF Len(items) = 0 THEN <<>>
  ELSE LET item == Head(items)
       IN (IF Falsy(Prop(item, "accelerator")) THEN <<>> ELSE << item >>)
          \o (IF "submenu" \in DOMAIN item THEN AcceleratorItems(item.submenu) ELSE <<>>)
          \o AcceleratorItems(Tail(items))

allAcceleratorMenuItems(menu) == AcceleratorItems(menus[menu])


(***************************************************************************)
(* Menu lifecycle manager                                                  *)
(***************************************************************************)
Num(n) == [ num |-> n ]

\* (mailbox || {}).id
IdOf(mailbox) == IF mailbox = Null THEN Undefined ELSE Num(mailbox.id)

\* array.join(separator) on strings, as the sequence of the joined pieces
RECURSIVE Join(_, _)
Join(pieces, separator) ==
  IF Len(pieces) = 0 THEN <<>>
  ELSE IF Len(pieces) = 1 THEN Head(pieces)
  ELSE Head(pieces) \o << separator >> \o Join(Tail(pieces), separator)

\* m.displayName + ';' + m.enabledServiceTypes.join(';')
MailboxSignature(m) ==
  << IF "displayName" \in DOMAIN m THEN m.displayName ELSE "undefined", ";" >>
  \o Join([ i \in 1..Len(m.enabledServiceTypes) |-> m.enabledServiceTypes[i].str ], ";")

\* (mailboxes || []).map(...).join('|')
Signature(mailboxes) ==
  IF mailboxes = Null THEN <<>>
  ELSE Join([ i \in 1..Len(mailboxes.list) |-> MailboxSignature(mailboxes.list[i]) ], "|")

\* MailboxesChanged without the comparison of the active service type
MailboxesChangedIgnoringService(activeMailbox, activeServiceType, mailboxes) ==
  \/ IdOf(lastActiveMailbox) # IdOf(activeMailbox)
  \/ Signature(lastMailboxes) # Signature(mailboxes)

\* MailboxesChanged comparing the account lists themselves, not their signatures
MailboxesChangedByList(activeMailbox, activeServiceType, mailboxes) ==
  \/ IdOf(lastActiveMailbox) # IdOf(activeMailbox)
  \/ lastActiveServiceType # activeServiceType
  \/ lastMailboxes # mailboxes

\* props.findIndex(([prev, next]) => prev !== next) !== -1
MailboxesChanged(activeMailbox, activeServiceType, mailboxes) ==
  \/ IdOf(lastActiveMailbox) # IdOf(activeMailbox)
  \/ lastActiveServiceType # activeServiceType
  \/ Signature(lastMailboxes) # Signature(mailboxes)

\* StepAfter with the previous menu released before the new one is installed
StepAfterDestroyFirst(step) ==
  CASE step = "build" -> "destroy"
    [] step = "destroy" -> "install"
    [] step = "install" -> "shortcuts"
    [] step = "shortcuts" -> "idle"

\* StepAfter without the release of the previous menu
StepAfterNoDestroy(step) ==
  CASE step = "build" -> "install"
    [] step = "install" -> "shortcuts"
    [] step = "shortcuts" -> "idle"
    [] step = "destroy" -> "idle"

\* the statements of updateApplicationMenu in the order they run
StepAfter(step) ==
  CASE step = "build" -> "install"
    [] step = "install" -> "shortcuts"
    [] step = "shortcuts" -> "destroy"
    [] step = "destroy" -> "idle"

\* a reference no menu object has, alive or still referred to
FreshMenu ==
  CHOOSE id \in 1..(MaxLiveMenus + 3) :
    /\ id \notin DOMAIN menus \cup {lastMenu, appMenu, prevMenu}
    /\ \A other \in 1..(id - 1) : other \in DOMAIN menus \cup {lastMenu, appMenu, prevMenu}

CanBuild == Cardinality(DOMAIN menus) < MaxLiveMenus

\* what a handler starts from: nothing called, nothing clicked
Begin(e) ==
  /\ event' = e
  /\ calls' = <<>>
  /\ clicked' = <<>>
  /\ tested' = 0

\* advance inside updateApplicationMenu; the call returns after its last statement
Advance ==
  /\ pc' = StepAfter(pc)
  /\ lastUpdate' = IF StepAfter(pc) = "idle" THEN "completed" ELSE lastUpdate
  /\ prevMenu' = IF StepAfter(pc) = "idle" THEN NoMenu ELSE prevMenu

\* updateApplicationMenu, entry: the four fields are stored and the previous menu is kept
updateApplicationMenu(accelerators, mailboxes, activeMailbox, activeServiceType) ==
  /\ lastAccelerators' = accelerators
  /\ lastActiveMailbox' = activeMailbox
  /\ lastActiveServiceType' = activeServiceType
  /\ lastMailboxes' = mailboxes
  /\ prevMenu' = lastMenu
  /\ pc' = "build"
  /\ lastUpdate' = "running"
  /\ UNCHANGED << lastMenu, appMenu, menus, registered >>

\* this._lastMenu = this.build(...): a new native menu, or the exception of build
BuildStep ==
  /\ pc = "build"
  /\ IF BuildThrows(lastAccelerators, lastMailboxes, lastActiveMailbox, lastActiveServiceType)
       THEN /\ pc' = "idle"
            /\ lastUpdate' = "threw"
            /\ prevMenu' = NoMenu
            /\ UNCHANGED << lastMenu, menus, calls >>
       ELSE /\ lastMenu' = FreshMenu
            /\ menus' = menus @@ (FreshMenu :>
                 build(lastAccelerators, lastMailboxes, lastActiveMailbox, lastActiveServiceType))
            /\ calls' = Append(calls, [ op |-> "buildFromTemplate", menu |-> FreshMenu ])
            /\ Advance
  /\ UNCHANGED << isDarwin, accounts, store, lastAccelerators, lastMailboxes, lastActiveMailbox,
                  lastActiveServiceType, appMenu, registered, event, clicked, tested >>
  /\ UNCHANGED << pureVars, composeVars >>

\* Menu.setApplicationMenu(this._lastMenu)
InstallStep ==
  /\ pc = "install"
  /\ appMenu' = lastMenu
  /\ calls' = Append(calls, [ op |-> "setApplicationMenu", menu |-> lastMenu ])
  /\ Advance
  /\ UNCHANGED << isDarwin, accounts, store, lastAccelerators, lastMailboxes, lastActiveMailbox,
                  lastActiveServiceType, lastMenu, menus, registered, event, clicked, tested >>
  /\ UNCHANGED << pureVars, composeVars >>

hiddenZoomInShortcut == IF isDarwin THEN "Cmd+=" ELSE "Ctrl+="

\* updateHiddenShortcuts without the else branch: the shortcut is never unregistered
updateHiddenShortcutsRegisterOnly(accelerators) ==
  IF Prop(accelerators, "zoomIn") = Prop(accelerators, "zoomInDefault") /\ ~registered
    THEN /\ registered' = TRUE
         /\ calls' = Append(calls, [ op |-> "register", shortcut |-> hiddenZoomInShortcut ])
    ELSE UNCHANGED << registered, calls >>

\* updateHiddenShortcuts without the isRegistered tests
updateHiddenShortcutsUnchecked(accelerators) ==
  IF Prop(accelerators, "zoomIn") = Prop(accelerators, "zoomInDefault")
    THEN /\ registered' = TRUE
         /\ calls' = Append(calls, [ op |-> "register", shortcut |-> hiddenZoomInShortcut ])
    ELSE /\ registered' = FALSE
         /\ calls' = Append(calls, [ op |-> "unregister", shortcut |-> hiddenZoomInShortcut ])

updateHiddenShortcuts(accelerators) ==
  IF Prop(accelerators, "zoomIn") = Prop(accelerators, "zoomInDefault")
    THEN IF ~registered
           THEN /\ registered' = TRUE
                /\ calls' = Append(calls, [ op |-> "register", shortcut |-> hiddenZoomInShortcut ])
           ELSE UNCHANGED << registered, calls >>
    ELSE IF registered
           THEN /\ registered' = FALSE
                /\ calls' = Append(calls, [ op |-> "unregister", shortcut |-> hiddenZoomInShortcut ])
           ELSE UNCHANGED << registered, calls >>

\* this.updateHiddenShortcuts(accelerators)
ShortcutsStep ==
  /\ pc = "shortcuts"
  /\ updateHiddenShortcuts(lastAccelerators)
  /\ Advance
  /\ UNCHANGED << isDarwin, accounts, store, lastAccelerators, lastMailboxes, lastActiveMailbox,
                  lastActiveServiceType, lastMenu, appMenu, menus, event, clicked, tested >>
  /\ UNCHANGED << pureVars, composeVars >>

\* MenuTool.fullDestroyMenu(menu): the native menu and its items are released
fullDestroyMenu(menu) ==
  /\ menus' = [ id \in DOMAIN menus \ {menu} |-> menus[id] ]
  /\ calls' = Append(calls, [ op |-> "fullDestroyMenu", menu |-> menu ])

\* if (lastMenu) { MenuTool.fullDestroyMenu(lastMenu) }
DestroyStep ==
  /\ pc = "destroy"
  /\ IF prevMenu # NoMenu THEN fullDestroyMenu(prevMenu) ELSE UNCHANGED << menus, calls >>
  /\ Advance
  /\ UNCHANGED << isDarwin, accounts, store, lastAccelerators, lastMailboxes, lastActiveMailbox,
                  lastActiveServiceType, lastMenu, appMenu, registered, event, clicked, tested >>
  /\ UNCHANGED << pureVars, composeVars >>

\* a direct call of updateApplicationMenu by the application, with the
\* accelerators of the settings and the account state the store holds
UpdateApplicationMenuCall ==
  /\ pc = "idle"
  /\ CanBuild
  /\ \E accelerators \in AcceleratorMaps :
       updateApplicationMenu(accelerators, store.mailboxes, store.activeMailbox,
                             store.activeServiceType)
  /\ Begin([ type |-> "updateApplicationMenu" ])
  /\ UNCHANGED << isDarwin, accounts, store >>
  /\ UNCHANGED << pureVars, composeVars >>

\* mailboxStore emits 'changed': the store holds a new state and the handler runs
handleMailboxesChanged ==
  /\ pc = "idle"
  /\ CanBuild
  /\ \E s \in StoreUniverse :
       /\ store' = s
       /\ IF MailboxesChanged(s.activeMailbox, s.activeServiceType, s.mailboxes)
            THEN updateApplicationMenu(lastAccelerators, s.mailboxes, s.activeMailbox,
                                       s.activeServiceType)
            ELSE UNCHANGED << lastAccelerators, lastMailboxes, lastActiveMailbox,
                              lastActiveServiceType, lastMenu, appMenu, menus, registered,
                              pc, prevMenu, lastUpdate >>
       /\ Begin([ type |-> "mailboxesChanged",
                  changed |-> MailboxesChanged(s.activeMailbox, s.activeServiceType, s.mailboxes) ])
  /\ UNCHANGED << isDarwin, accounts >>
  /\ UNCHANGED << pureVars, composeVars >>

\* handleAcceleratorsChanged rebuilding only when next differs from the remembered accelerators
handleAcceleratorsChangedIfDifferent ==
  /\ pc = "idle"
  /\ CanBuild
  /\ \E next \in AcceleratorMaps :
       /\ IF next # lastAccelerators
            THEN updateApplicationMenu(next, lastMailboxes, lastActiveMailbox,
                                       lastActiveServiceType)
            ELSE UNCHANGED << lastAccelerators, lastMailboxes, lastActiveMailbox,
                              lastActiveServiceType, lastMenu, appMenu, menus, registered,
                              pc, prevMenu, lastUpdate >>
       /\ Begin([ type |-> "acceleratorsChanged", next |-> next,
                  same |-> (next = lastAccelerators) ])
  /\ UNCHANGED << isDarwin, accounts, store >>
  /\ UNCHANGED << pureVars, composeVars >>

\* settingStore emits 'changed:accelerators' with { next }
handleAcceleratorsChanged ==
  /\ pc = "idle"
  /\ CanBuild
  /\ \E next \in AcceleratorMaps :
       /\ updateApplicationMenu(next, lastMailboxes, lastActiveMailbox, lastActiveServiceType)
       /\ Begin([ type |-> "acceleratorsChanged", next |-> next,
                  same |-> (next = lastAccelerators) ])
  /\ UNCHANGED << isDarwin, accounts, store >>
  /\ UNCHANGED << pureVars, composeVars >>


(***************************************************************************)
(* Input events                                                            *)
(***************************************************************************)
KeyInput(type, fields, ctrl, shift, alt, meta) ==
  fields @@ [ type |-> type, ctrl |-> ctrl, shift |-> shift, alt |-> alt, meta |-> meta ]

\* the inputs the event source reports while a menu may be installed
InputEvents ==
  { KeyInput("keyUp", [ key |-> "," ], TRUE, FALSE, FALSE, FALSE),
    KeyInput("keyDown", [ key |-> "," ], TRUE, FALSE, FALSE, FALSE),
    KeyInput("keyDown", [ key |-> "Z" ], TRUE, FALSE, FALSE, FALSE),
    KeyInput("keyDown", [ key |-> "N" ], TRUE, TRUE, FALSE, FALSE),
    KeyInput("keyDown", [ key |-> "2", code |-> "Digit2" ], TRUE, FALSE, FALSE, FALSE) }

\* InputIgnored without the test of the input type
InputIgnoredWithoutType(input) == lastMenu = NoMenu

\* if (input.type !== 'keyDown') { return }  if (!this._lastMenu) { return }
InputIgnored(input) == input.type # "keyDown" \/ lastMenu = NoMenu

\* MatchedMenu taking the last matching entry instead of the first
MatchedMenuLast(input) ==
  LET items == allAcceleratorMenuItems(lastMenu)
      hits == { i \in 1..Len(items) :
                  matchInputEventToAccelerator(input, items[i].accelerator) }
  IN IF hits = {} THEN 0 ELSE CHOOSE i \in hits : \A j \in hits : j <= i

\* allAcceleratorMenuItems(this._lastMenu).find((menuItem) => match(input, menuItem.accelerator)):
\* the position of the entry found, 0 when none matches
MatchedMenu(input) ==
  LET items == allAcceleratorMenuItems(lastMenu)
  IN FirstIndex([ k \in 1..Len(items) |->
                   matchInputEventToAccelerator(input, items[k].accelerator) ])

\* if (matchedMenu && matchedMenu.click) { matchedMenu.click() }
ClicksOf(matchedMenu) ==
  LET items == allAcceleratorMenuItems(lastMenu)
  IN IF matchedMenu # 0 /\ "click" \in DOMAIN items[matchedMenu]
       THEN << items[matchedMenu].click >>
       ELSE <<>>

\* the entries find hands to the matcher: up to and including the first match
TestedBy(matchedMenu) ==
  IF matchedMenu = 0 THEN Len(allAcceleratorMenuItems(lastMenu)) ELSE matchedMenu

\* handleInputEventPrevented dropping its menu reference once an entry matched
handleInputEventPreventedReleasing ==
  /\ pc = "idle"
  /\ \E input \in InputEvents :
       /\ event' = [ type |-> "inputEventPrevented", input |-> input ]
       /\ calls' = <<>>
       /\ IF InputIgnored(input)
            THEN clicked' = <<>> /\ tested' = 0 /\ lastMenu' = lastMenu
            ELSE LET matchedMenu == MatchedMenu(input)
                 IN /\ clicked' = ClicksOf(matchedMenu)
                    /\ tested' = TestedBy(matchedMenu)
                    /\ lastMenu' = IF matchedMenu # 0 THEN NoMenu ELSE lastMenu
  /\ UNCHANGED << isDarwin, accounts, store, lastAccelerators, lastMailboxes, lastActiveMailbox,
                  lastActiveServiceType, appMenu, menus, registered, pc,
                  prevMenu, lastUpdate >>
  /\ UNCHANGED << pureVars, composeVars >>

\* evtMain emits INPUT_EVENT_PREVENTED
handleInputEventPrevented ==
  /\ pc = "idle"
  /\ \E input \in InputEvents :
       /\ event' = [ type |-> "inputEventPrevented", input |-> input ]
       /\ calls' = <<>>
       /\ IF InputIgnored(input)
            THEN clicked' = <<>> /\ tested' = 0
            ELSE LET matchedMenu == MatchedMenu(input)
                 IN clicked' = ClicksOf(matchedMenu) /\ tested' = TestedBy(matchedMenu)
  /\ UNCHANGED << isDarwin, accounts, store, lastAccelerators, lastMailboxes, lastActiveMailbox,
                  lastActiveServiceType, lastMenu, appMenu, menus, registered, pc,
                  prevMenu, lastUpdate >>
  /\ UNCHANGED << pureVars, composeVars >>

(***************************************************************************)
(* The program: construction and the notifications it handles              *)
(***************************************************************************)
\* the builder variables when the builder is not under check on its own
BuilderIdle ==
  /\ bArgs = [ stage |-> "none" ]
  /\ bResult = [ stage |-> "none" ]

\* the resolver and matcher variables when they are not under check on their own
MatcherIdle ==
  /\ pInput = [ type |-> "none" ]
  /\ pTemplate = Undefined
  /\ pIndex = 0
  /\ pAccel = Undefined
  /\ pResult = [ stage |-> "none" ]

\* the variables of the Gmail page script when composeMessage is not under check
ComposeIdle ==
  /\ composeButton = FALSE
  /\ data = {}
  /\ dom = {}
  /\ cpc = "none"
  /\ retries = 0
  /\ retry = "none"
  /\ attempts = 0
  /\ filled = {}
  /\ focus = [ scheduled |-> "none", on |-> "none" ]

\* the pure-function variables when no pure function is under check
PureIdle ==
  /\ MatcherIdle
  /\ BuilderIdle
  /\ ComposeIdle

\* the state the constructor leaves
Constructed ==
  /\ isDarwin \in BOOLEAN
  /\ lastAccelerators = Null
  /\ lastMailboxes = Null
  /\ lastActiveMailbox = Null
  /\ lastActiveServiceType = Null
  /\ lastMenu = NoMenu
  /\ appMenu = NoMenu
  /\ menus = <<>>
  /\ registered = FALSE
  /\ pc = "idle"
  /\ prevMenu = NoMenu
  /\ event = [ type |-> "constructed" ]
  /\ lastUpdate = "none"
  /\ calls = <<>>
  /\ clicked = <<>>
  /\ tested = 0

Init ==
  /\ Constructed
  /\ accounts = "complete"
  /\ store \in StoreStates
  /\ PureIdle

Next ==
  \/ UpdateApplicationMenuCall
  \/ handleMailboxesChanged
  \/ handleAcceleratorsChanged
  \/ BuildStep
  \/ InstallStep
  \/ ShortcutsStep
  \/ DestroyStep
  \/ handleInputEventPrevented

Spec == Init /\ [][Next]_vars

\* the same program over a store whose accounts include one with absent
\* optional fields
InitSparse ==
  /\ Constructed
  /\ accounts = "sparse"
  /\ store \in SparseStoreStates
  /\ PureIdle

SpecSparse == InitSparse /\ [][Next]_vars


(***************************************************************************)
(* The resolver and the matcher on their own: an accelerator template, a   *)
(* list position and an observed input are drawn, the template is resolved *)
(* for the position (an indexed entry) or taken as it is (any other        *)
(* entry), and the observed input is matched against the result            *)
(***************************************************************************)
MaxIndex == 10         \* largest list position handed to the resolver

Templates ==
  { Str(<<"Ctrl", "Number">>), Str(<<"CmdOrCtrl", "Number">>), Str(<<"Ctrl", "number">>),
    Str(<<"Alt", "NUMBER">>), Str(<<"Ctrl", "Z">>), Str(<<"Ctrl", "4">>), Str(<<>>), Undefined }

DigitInputs ==
  { KeyInput("keyDown", [ code |-> "Digit" \o DigitChars[i] ], c, FALSE, a, FALSE) :
      i \in 1..Len(DigitChars), c \in BOOLEAN, a \in BOOLEAN }

PureInputs ==
  DigitInputs \cup
  { KeyInput("keyDown", [ key |-> "4" ], TRUE, FALSE, FALSE, FALSE),
    KeyInput("keyDown", [ key |-> "$", code |-> "Digit4" ], TRUE, TRUE, FALSE, FALSE),
    KeyInput("keyDown", [ key |-> "Z" ], TRUE, FALSE, FALSE, FALSE),
    KeyInput("keyDown", [ key |-> "1", code |-> "Digit1" ], FALSE, FALSE, FALSE, TRUE) }

InitPure ==
  /\ Constructed
  /\ accounts = "complete"
  /\ store = [ mailboxes |-> List(<<>>), activeMailbox |-> Null, activeServiceType |-> DEFAULT ]
  /\ BuilderIdle
  /\ ComposeIdle
  /\ pInput \in PureInputs
  /\ pTemplate \in Templates
  /\ pIndex \in (0 - 1)..MaxIndex
  /\ pAccel = Undefined
  /\ pResult = [ stage |-> "start" ]

\* accelerator: this.buildAcceleratorStringForIndex(template, index)
ResolveIndexed ==
  /\ pResult.stage = "start"
  /\ pAccel' = buildAcceleratorStringForIndex(pTemplate, pIndex)
  /\ pResult' = [ stage |-> "resolved" ]
  /\ UNCHANGED << pInput, pTemplate, pIndex, bArgs, bResult >>
  /\ UNCHANGED << lifecycleVars, composeVars >>

\* accelerator: accelerators.<name>
TakeTemplate ==
  /\ pResult.stage = "start"
  /\ pAccel' = pTemplate
  /\ pResult' = [ stage |-> "raw" ]
  /\ UNCHANGED << pInput, pTemplate, pIndex, bArgs, bResult >>
  /\ UNCHANGED << lifecycleVars, composeVars >>

\* this._matchInputEventToAccelerator(input, menuItem.accelerator)
MatchInput ==
  /\ pResult.stage \in {"resolved", "raw"}
  /\ pResult' = [ stage |-> "matched", from |-> pResult.stage,
                  match |-> matchInputEventToAccelerator(pInput, pAccel) ]
  /\ UNCHANGED << pInput, pTemplate, pIndex, pAccel, bArgs, bResult >>
  /\ UNCHANGED << lifecycleVars, composeVars >>

NextPure ==
  \/ ResolveIndexed
  \/ TakeTemplate
  \/ MatchInput

SpecPure == InitPure /\ [][NextPure]_vars


(***************************************************************************)
(* The builder on its own: the arguments of build are drawn, the tree is   *)
(* built, its accelerator-bearing entries are collected in tree order, and *)
(* each entry's accelerator is parsed and matched against itself           *)
(***************************************************************************)
MaxAccounts == 11      \* length of the long account list handed to the builder

\* accounts that differ in their id only
NumberedMailbox(n) ==
  [ id |-> 10 + n, displayName |-> "Team", enabledServiceTypes |-> <<DEFAULT>>,
    hasAdditionalServices |-> FALSE, enabledServices |-> <<ServiceDefault>> ]

LongMailboxList == [ n \in 1..MaxAccounts |-> NumberedMailbox(n) ]

\* accelerators whose account template is written in lower case
LowercaseAccelerators ==
  [ DefaultAccelerators EXCEPT !.mailboxIndex = Str(<<"CmdOrCtrl", "number">>) ]

BuildLists == ListsOf(AllMailboxes \cup {MailboxBare}, MaxMailboxes) \cup { LongMailboxList }

\* the arguments of build: any accelerators, any list, the active account one
\* of the list or none, any active service type
BuildArgs ==
  { [ stage |-> "args", accelerators |-> x[1], mailboxes |-> List(x[2]),
      activeMailbox |-> x[3], activeServiceType |-> x[4] ] :
      x \in { y \in (AcceleratorMaps \cup {LowercaseAccelerators}) \X BuildLists
                     \X (UNION { Range(l) : l \in BuildLists } \cup {Null})
                     \X {DEFAULT, CALENDAR} :
               y[3] # Null => y[3] \in Range(y[2]) } }

InitBuild ==
  /\ Constructed
  /\ accounts = "complete"
  /\ store = [ mailboxes |-> List(<<>>), activeMailbox |-> Null, activeServiceType |-> DEFAULT ]
  /\ MatcherIdle
  /\ ComposeIdle
  /\ bArgs \in BuildArgs
  /\ bResult = [ stage |-> "none" ]

\* this.build(accelerators, mailboxes, activeMailbox, activeServiceType)
Build ==
  /\ bResult.stage = "none"
  /\ bResult' =
       IF BuildThrows(bArgs.accelerators, bArgs.mailboxes, bArgs.activeMailbox,
                      bArgs.activeServiceType)
         THEN [ stage |-> "threw" ]
         ELSE [ stage |-> "built",
                tree |-> build(bArgs.accelerators, bArgs.mailboxes, bArgs.activeMailbox,
                               bArgs.activeServiceType) ]
  /\ UNCHANGED << bArgs, pInput, pTemplate, pIndex, pAccel, pResult >>
  /\ UNCHANGED << lifecycleVars, composeVars >>

\* MenuTool.allAcceleratorMenuItems(menu) on the tree just built
Walk ==
  /\ bResult.stage = "built"
  /\ bResult' = [ stage |-> "walked", tree |-> bResult.tree,
                  items |-> AcceleratorItems(bResult.tree) ]
  /\ UNCHANGED << bArgs, pInput, pTemplate, pIndex, pAccel, pResult >>
  /\ UNCHANGED << lifecycleVars, composeVars >>

\* _acceleratorToInputKeyEvent(accelerator) used as the observed input of
\* _matchInputEventToAccelerator(input, accelerator)
SelfMatch(accelerator) ==
  LET descriptor == acceleratorToInputKeyEvent(accelerator)
  IN [ descriptor |-> descriptor,
       match |-> IF Threw(descriptor) THEN FALSE
                 ELSE matchInputEventToAccelerator(descriptor, accelerator) ]

\* every collected entry's accelerator parsed and matched against itself
MatchOwn ==
  /\ bResult.stage = "walked"
  /\ bResult' = [ stage |-> "matched", tree |-> bResult.tree, items |-> bResult.items,
                  own |-> [ i \in 1..Len(bResult.items) |->
                              SelfMatch(bResult.items[i].accelerator) ] ]
  /\ UNCHANGED << bArgs, pInput, pTemplate, pIndex, pAccel, pResult >>
  /\ UNCHANGED << lifecycleVars, composeVars >>

NextBuild ==
  \/ Build
  \/ Walk
  \/ MatchOwn

SpecBuild == InitBuild /\ [][NextBuild]_vars


(***************************************************************************)
(* Properties                                                              *)
(***************************************************************************)
\* the call a step adds to the log, when it adds one
AddsCall == Len(calls') = Len(calls) + 1

NewCall == calls'[Len(calls')]

CallsOf(op) == { i \in 1..Len(calls) : calls[i].op = op }

UpdateEvents == { "updateApplicationMenu", "mailboxesChanged", "acceleratorsChanged" }

\* C1: the installed application menu is never a destroyed one, at no step of
\* an update (the new menu is installed before the previous one is destroyed),
\* and once an update has completed a menu is installed: there is no moment
\* without an installed, live menu.
MenuAlwaysInstalled ==
  /\ appMenu # NoMenu => appMenu \in DOMAIN menus
  /\ lastUpdate = "completed" => appMenu # NoMenu /\ appMenu = lastMenu
  /\ pc \in {"shortcuts", "destroy"} => appMenu = lastMenu /\ appMenu \in DOMAIN menus

\* C1 witness: inside an update, the new menu is installed while the previous
\* one is still alive
NewInstalledBeforeOldDestroyed ==
  /\ pc = "destroy"
  /\ prevMenu # NoMenu
  /\ prevMenu \in DOMAIN menus
  /\ appMenu = lastMenu
  /\ appMenu # prevMenu

\* C2: after every completed update exactly the menu built by it is alive;
\* every destroy releases a menu that is still alive (so no menu is destroyed
\* twice), it is the previous menu, and nothing is destroyed when there was no
\* previous menu.
OnlyLastMenuAlive ==
  /\ [](pc = "idle" /\ lastUpdate = "completed" => DOMAIN menus = {lastMenu})
  /\ [][ /\ (AddsCall /\ NewCall.op = "fullDestroyMenu" =>
               /\ prevMenu # NoMenu
               /\ NewCall.menu = prevMenu
               /\ NewCall.menu \in DOMAIN menus
               /\ NewCall.menu # lastMenu)
         /\ (prevMenu = NoMenu => DOMAIN menus \subseteq DOMAIN menus')
         /\ (DOMAIN menus \ DOMAIN menus' # {} => AddsCall /\ NewCall.op = "fullDestroyMenu")
       ]_vars

\* C2 witness: a completed update that destroyed its predecessor
SecondUpdateCompleted ==
  /\ pc = "idle"
  /\ lastUpdate = "completed"
  /\ CallsOf("fullDestroyMenu") # {}
  /\ CallsOf("buildFromTemplate") # {}

\* each account's display name and enabled service types, in list order
NamesAndServices(mailboxes) ==
  IF mailboxes = Null THEN <<>>
  ELSE [ i \in 1..Len(mailboxes.list) |->
           [ name |-> IF "displayName" \in DOMAIN mailboxes.list[i]
                        THEN << mailboxes.list[i].displayName >> ELSE <<>>,
             services |-> mailboxes.list[i].enabledServiceTypes ] ]

\* what the accounts-changed handler compares: remembered against fetched
AccountStateDiffers(fetched) ==
  \/ (lastActiveMailbox = Null) # (fetched.activeMailbox = Null)
  \/ /\ lastActiveMailbox # Null
     /\ fetched.activeMailbox # Null
     /\ lastActiveMailbox.id # fetched.activeMailbox.id
  \/ lastActiveServiceType # fetched.activeServiceType
  \/ NamesAndServices(lastMailboxes) # NamesAndServices(fetched.mailboxes)

\* C3: handling an accounts-changed notification starts an update, with the
\* remembered accelerators and the fetched account state, exactly when the
\* active account id, the active service type or the accounts' names and
\* enabled services differ from the remembered ones; otherwise it calls
\* nothing and leaves the remembered fields and the menus alone.
AccountsChangedRebuildsIffDiffers ==
  [][ pc = "idle" /\ event'.type = "mailboxesChanged" =>
        IF AccountStateDiffers(store')
          THEN /\ pc' = "build"
               /\ lastAccelerators' = lastAccelerators
               /\ lastMailboxes' = store'.mailboxes
               /\ lastActiveMailbox' = store'.activeMailbox
               /\ lastActiveServiceType' = store'.activeServiceType
          ELSE /\ pc' = "idle"
               /\ calls' = <<>>
               /\ UNCHANGED << lastAccelerators, lastMailboxes, lastActiveMailbox,
                               lastActiveServiceType, lastMenu, appMenu, menus, registered >>
    ]_vars

\* C3 witness: a notification handled without a rebuild while a menu is installed
AccountsChangedWithoutRebuild ==
  /\ event.type = "mailboxesChanged"
  /\ ~event.changed
  /\ pc = "idle"
  /\ lastMenu # NoMenu
  /\ calls = <<>>

\* C4: handling an accelerators-changed notification always starts an update,
\* with next as the accelerators and the remembered account state; the update
\* leaves the remembered account state as it was, so lastAccelerators is next
\* afterwards and the three other fields are unchanged.
AcceleratorsChangedAlwaysRebuilds ==
  /\ [](event.type = "acceleratorsChanged" => lastAccelerators = event.next)
  /\ [][ /\ (pc = "idle" /\ event'.type = "acceleratorsChanged" =>
               /\ pc' = "build"
               /\ lastAccelerators' = event'.next
               /\ UNCHANGED << lastMailboxes, lastActiveMailbox, lastActiveServiceType >>)
         /\ (pc # "idle" =>
               UNCHANGED << lastAccelerators, lastMailboxes, lastActiveMailbox,
                            lastActiveServiceType >>)
       ]_vars

\* C4 witness: a completed rebuild for a notification whose next equals the
\* remembered accelerators
RebuiltForSameAccelerators ==
  /\ event.type = "acceleratorsChanged"
  /\ event.same
  /\ pc = "idle"
  /\ lastUpdate = "completed"
  /\ CallsOf("buildFromTemplate") # {}
  /\ CallsOf("setApplicationMenu") # {}

\* C5: after every completed update the hidden zoom-in shortcut is registered
\* exactly when the accelerators of that update have zoomIn === zoomInDefault.
HiddenShortcutFollowsZoomIn ==
  pc = "idle" /\ lastUpdate = "completed" =>
    (registered <=> Prop(lastAccelerators, "zoomIn") = Prop(lastAccelerators, "zoomInDefault"))

\* C5 witness: an update that moved zoom-in off its default and unregistered
\* the shortcut registered before
ShortcutUnregisteredAgain ==
  /\ pc = "idle"
  /\ lastUpdate = "completed"
  /\ ~registered
  /\ CallsOf("unregister") # {}

\* C6: register is never called while the shortcut is registered and
\* unregister is never called while it is not.
ShortcutCallsIdempotent ==
  [][ AddsCall =>
        /\ (NewCall.op = "register" => ~registered /\ registered')
        /\ (NewCall.op = "unregister" => registered /\ ~registered')
    ]_vars

\* C6 witness: a completed update that found the shortcut registered, had to
\* keep it registered and called neither register nor unregister
RegisteredLeftAlone ==
  /\ pc = "idle"
  /\ lastUpdate = "completed"
  /\ event.type \in UpdateEvents
  /\ registered
  /\ CallsOf("register") = {}
  /\ CallsOf("unregister") = {}
  /\ CallsOf("fullDestroyMenu") # {}

\* the positions, in tree order, of the installed menu's entries whose
\* accelerator matches the input
MatchingEntries(input) ==
  { i \in 1..Len(allAcceleratorMenuItems(lastMenu)) :
      matchInputEventToAccelerator(input, allAcceleratorMenuItems(lastMenu)[i].accelerator) }

HandledInput == event.type = "inputEventPrevented" /\ ~InputIgnored(event.input)

\* C7: for a handled key-down input at most one click handler is invoked; it
\* is the handler of the first entry, in tree order, whose accelerator matches;
\* it is invoked when that entry has one; no entry after the first match is
\* examined, and no handler of a later matching entry is invoked.
FirstMatchWins ==
  HandledInput =>
    LET items == allAcceleratorMenuItems(lastMenu)
        matching == MatchingEntries(event.input)
    IN /\ Len(clicked) <= 1
       /\ matching = {} => clicked = <<>> /\ tested = Len(items)
       /\ \A first \in matching :
            (\A other \in matching : first <= other) =>
              /\ tested = first
              /\ clicked = IF "click" \in DOMAIN items[first]
                             THEN << items[first].click >> ELSE <<>>

\* C7 witness: the first matching entry has no click handler, a later matching
\* entry has one, and nothing was invoked
LaterMatchNotInvoked ==
  /\ HandledInput
  /\ clicked = <<>>
  /\ \E first, later \in MatchingEntries(event.input) :
       /\ \A other \in MatchingEntries(event.input) : first <= other
       /\ first < later
       /\ "click" \notin DOMAIN allAcceleratorMenuItems(lastMenu)[first]
       /\ "click" \in DOMAIN allAcceleratorMenuItems(lastMenu)[later]

\* C8: an input whose type is not 'keyDown', or one that arrives while no menu
\* has been installed, is ignored: no entry is handed to the matcher and no
\* handler is invoked.
IgnoredInputDoesNothing ==
  event.type = "inputEventPrevented" /\ (event.input.type # "keyDown" \/ lastMenu = NoMenu) =>
    clicked = <<>> /\ tested = 0

\* C8 witness: a key-up input whose keystroke is the accelerator of an entry
\* with a click handler of the installed menu
KeyUpOfAnAcceleratorIgnored ==
  /\ event.type = "inputEventPrevented"
  /\ event.input.type = "keyUp"
  /\ lastMenu # NoMenu
  /\ \E i \in MatchingEntries(event.input) :
       "click" \in DOMAIN allAcceleratorMenuItems(lastMenu)[i]

\* the ten candidates of an accelerator that contains 'number'
NumberCandidates(accelerator) ==
  { ReplaceNumberIgnoreCase(accelerator, DigitChars[i]) : i \in 1..Len(DigitChars) }

IndexedDigitMatchesByCode ==
  /\ pResult.stage = "matched"
  /\ pResult.from = "resolved"
  /\ pTemplate = Str(<<"Ctrl", "Number">>)
  /\ pIndex \in 0..8
  /\ pInput.ctrl
  =>
  /\ pAccel = Str(<<"Ctrl", NumberToString(pIndex + 1)>>)
  /\ "key" \notin DOMAIN acceleratorToInputKeyEvent(pAccel)
  /\ acceleratorToInputKeyEvent(pAccel).code = "Digit" \o NumberToString(pIndex + 1)
  /\ pResult.match <=>
       ("code" \in DOMAIN pInput /\ pInput.code = "Digit" \o NumberToString(pIndex + 1))

\* C10 witness: 'Ctrl+Number' at position 3 matched against Ctrl with code Digit4
CtrlNumberAtThreeMatchesDigit4 ==
  /\ pResult.stage = "matched"
  /\ pResult.from = "resolved"
  /\ pTemplate = Str(<<"Ctrl", "Number">>)
  /\ pIndex = 3
  /\ pInput = KeyInput("keyDown", [ code |-> "Digit4" ], TRUE, FALSE, FALSE, FALSE)
  /\ pResult.match

\* C11: in every tree the builder produces, each accelerator-bearing entry of
\* the walk has a descriptor parsed from its own accelerator, and that
\* descriptor, used as the observed input, matches the same accelerator.
OwnAcceleratorMatches ==
  bResult.stage = "matched" =>
    \A i \in 1..Len(bResult.items) :
      /\ ~Threw(bResult.own[i].descriptor)
      /\ bResult.own[i].match

\* the resolver has run on the drawn template and position
Resolved ==
  \/ pResult.stage = "resolved"
  \/ pResult.stage = "matched" /\ pResult.from = "resolved"

\* C12: for a position in 0..9 the resolver returns the template with the
\* placeholder token 'Number' replaced by position + 1 and every other token
\* as it was ('CmdOrCtrl+Number' at 9 gives 'CmdOrCtrl+10'), and the empty
\* string for an absent or empty template; for a position below 0 or above 9
\* it returns undefined whatever the template.
ResolverReplacesPlaceholder ==
  Resolved =>
    IF pIndex < 0 \/ pIndex > 9 THEN pAccel = Undefined
    ELSE IF pTemplate = Undefined \/ pTemplate = Str(<<>>) THEN pAccel = Str(<<>>)
    ELSE /\ IsStr(pAccel)
         /\ Len(pAccel.str) = Len(pTemplate.str)
         /\ \A k \in 1..Len(pTemplate.str) :
              pAccel.str[k] =
                IF pTemplate.str[k] = "Number" /\ \A j \in 1..(k - 1) : pTemplate.str[j] # "Number"
                  THEN << "1", "2", "3", "4", "5", "6", "7", "8", "9", "10" >>[pIndex + 1]
                  ELSE pTemplate.str[k]

\* C12 witness: 'CmdOrCtrl+Number' resolved for the last position, 9
LastPositionResolved ==
  /\ pResult.stage = "resolved"
  /\ pTemplate = Str(<<"CmdOrCtrl", "Number">>)
  /\ pIndex = 9
  /\ pAccel = Str(<<"CmdOrCtrl", "10">>)

\* a tree has been built from the drawn arguments
Built == bResult.stage \in {"built", "walked", "matched"}

\* the entries of the Window menu of the built tree
WindowItems == bResult.tree[4].submenu

HasLabel(item, label) == "label" \in DOMAIN item /\ item.label = label

IsRadio(item) == "type" \in DOMAIN item /\ item.type = "radio"

\* the positions of the entries of a menu that satisfy a description
SeparatorsOf(items) == { i \in 1..Len(items) : items[i] = [ type |-> "separator" ] }

LabelledOf(items, label) == { i \in 1..Len(items) : HasLabel(items[i], label) }

\* the radio entries that switch to an account, and those that switch to a
\* service of the active account, in menu order
AccountRadios(items) ==
  SelectSeq(items, LAMBDA item : IsRadio(item) /\ Len(item.click.args) = 1)

ServiceRadios(items) ==
  SelectSeq(items, LAMBDA item : IsRadio(item) /\ Len(item.click.args) = 2)

\* C13: with zero or one accounts the Window menu has no account radio entry,
\* no Previous/Next Account entry and no separator of that section; with more
\* than one account it has one radio entry per account, in list order, each
\* with the accelerator resolved from the mailboxIndex template and its
\* position, which is undefined above position 9.
AccountSectionFollowsList ==
  Built =>
    LET list == bArgs.mailboxes.list
        radios == AccountRadios(WindowItems)
        serviceSeparators == IF LabelledOf(WindowItems, "Previous Service") = {} THEN 0 ELSE 2
    IN IF Len(list) <= 1
         THEN /\ radios = <<>>
              /\ LabelledOf(WindowItems, "Previous Account") = {}
              /\ LabelledOf(WindowItems, "Next Account") = {}
              /\ Cardinality(SeparatorsOf(WindowItems)) = serviceSeparators
         ELSE /\ Len(radios) = Len(list)
              /\ Cardinality(LabelledOf(WindowItems, "Previous Account")) = 1
              /\ Cardinality(LabelledOf(WindowItems, "Next Account")) = 1
              /\ Cardinality(SeparatorsOf(WindowItems)) = 2 + serviceSeparators
              /\ \A i \in 1..Len(list) :
                   /\ radios[i].click = [ fn |-> "changeMailbox", args |-> << list[i].id >> ]
                   /\ radios[i].accelerator =
                        IF i - 1 > 9 THEN Undefined
                        ELSE buildAcceleratorStringForIndex(bArgs.accelerators.mailboxIndex, i - 1)

\* C13 witness: a list of more than ten accounts, whose eleventh entry has no
\* accelerator while the tenth has one
EleventhAccountWithoutAccelerator ==
  /\ Built
  /\ Len(bArgs.mailboxes.list) > 10
  /\ Len(AccountRadios(WindowItems)) = Len(bArgs.mailboxes.list)
  /\ AccountRadios(WindowItems)[10].accelerator # Undefined
  /\ AccountRadios(WindowItems)[11].accelerator = Undefined

\* the account radio entries of the built tree that are checked
CheckedAccounts ==
  { i \in 1..Len(AccountRadios(WindowItems)) : AccountRadios(WindowItems)[i].checked }

\* C14: for a list of more than one account with pairwise distinct ids, an
\* account radio entry is checked iff its account's id is the active
\* account's id: exactly one entry, the active account's, is checked when the
\* active account is in the list, and none when there is no active account.
CheckedRadioIsActiveAccount ==
  LET list == bArgs.mailboxes.list
      active == bArgs.activeMailbox
  IN Built /\ Len(list) > 1 /\ (\A i, j \in 1..Len(list) : i # j => list[i].id # list[j].id) =>
       /\ \A i \in 1..Len(list) :
            AccountRadios(WindowItems)[i].checked <=> (active # Null /\ list[i].id = active.id)
       /\ active = Null => CheckedAccounts = {}
       /\ active # Null /\ (\E i \in 1..Len(list) : list[i] = active) =>
            /\ Cardinality(CheckedAccounts) = 1
            /\ \A i \in CheckedAccounts : list[i].id = active.id

\* C14 witness: three accounts or more with the second active, and only the
\* second entry checked
SecondOfSeveralChecked ==
  /\ Built
  /\ Len(bArgs.mailboxes.list) >= 3
  /\ bArgs.activeMailbox = bArgs.mailboxes.list[2]
  /\ CheckedAccounts = {2}

\* the service section of the built tree is there
ServiceSectionPresent == LabelledOf(WindowItems, "Previous Service") # {}

\* C15: the service section (separator, Previous Service, Next Service,
\* separator, one radio entry per enabled service of the active account, in
\* order) closes the Window menu iff there is an active account and it reports
\* additional services, however many accounts there are; each service radio
\* entry is checked iff its type is the active service type and carries the
\* accelerator resolved from the serviceIndex template and its position.
ServiceSectionFollowsActiveAccount ==
  Built =>
    LET window == WindowItems
        active == bArgs.activeMailbox
        radios == ServiceRadios(window)
    IN /\ ServiceSectionPresent <=>
            /\ active # Null
            /\ "hasAdditionalServices" \in DOMAIN active
            /\ active.hasAdditionalServices
       /\ ~ServiceSectionPresent =>
            /\ radios = <<>>
            /\ LabelledOf(window, "Next Service") = {}
       /\ ServiceSectionPresent =>
            LET services == active.enabledServices
                first == Len(window) - Len(services) - 3
            IN /\ Len(radios) = Len(services)
               /\ first >= 1
               /\ window[first] = [ type |-> "separator" ]
               /\ HasLabel(window[first + 1], "Previous Service")
               /\ HasLabel(window[first + 2], "Next Service")
               /\ window[first + 3] = [ type |-> "separator" ]
               /\ \A i \in 1..Len(services) :
                    /\ window[first + 3 + i] = radios[i]
                    /\ radios[i].label = services[i].humanizedType
                    /\ radios[i].checked <=> services[i].type = bArgs.activeServiceType
                    /\ radios[i].click =
                         [ fn |-> "changeMailbox", args |-> << active.id, services[i].type >> ]
                    /\ radios[i].accelerator =
                         buildAcceleratorStringForIndex(bArgs.accelerators.serviceIndex, i - 1)

\* C15 witness: a single account, active and with additional services: no
\* account section, and a service section whose second entry is checked
ServicesShownForSingleAccount ==
  /\ Built
  /\ Len(bArgs.mailboxes.list) = 1
  /\ AccountRadios(WindowItems) = <<>>
  /\ Len(ServiceRadios(WindowItems)) = 2
  /\ ~ServiceRadios(WindowItems)[1].checked
  /\ ServiceRadios(WindowItems)[2].checked

\* C16: build completes whatever optional field an account lacks: an account
\* without a display name is labelled 'Untitled', and an active account that
\* reports additional services without a list of them yields a tree with no
\* service radio entry.
BuilderToleratesAbsentFields ==
  /\ bResult.stage # "threw"
  /\ Built =>
       /\ \A i \in 1..Len(AccountRadios(WindowItems)) :
            "displayName" \notin DOMAIN bArgs.mailboxes.list[i] =>
              AccountRadios(WindowItems)[i].label = "Untitled"
       /\ (bArgs.activeMailbox # Null /\ "enabledServices" \notin DOMAIN bArgs.activeMailbox) =>
            ServiceRadios(WindowItems) = <<>>

\* the account ids the account radio entries of the installed menu switch to
InstalledTargets ==
  LET radios == AccountRadios(menus[appMenu][4].submenu)
  IN [ i \in 1..Len(radios) |-> radios[i].click.args[1] ]

\* C17: once an accounts-changed notification has been handled, the account
\* radio entries of the installed menu switch to the ids of the store's
\* ordered account list, in that order (no entries for fewer than two
\* accounts).
InstalledRadiosFollowStore ==
  pc = "idle" /\ event.type = "mailboxesChanged" /\ appMenu # NoMenu /\ appMenu \in DOMAIN menus =>
    InstalledTargets =
      IF Len(store.mailboxes.list) <= 1 THEN <<>>
      ELSE [ i \in 1..Len(store.mailboxes.list) |-> store.mailboxes.list[i].id ]

\* two accounts change places and every position keeps its display name and
\* enabled service types
ReorderedWithSameSignature(before, after) ==
  /\ before # Null
  /\ Len(before.list) = Len(after.list)
  /\ \E i, j \in 1..Len(before.list) :
       /\ i < j
       /\ before.list[i] # before.list[j]
       /\ after.list = [ before.list EXCEPT ![i] = before.list[j], ![j] = before.list[i] ]
  /\ NamesAndServices(before) = NamesAndServices(after)

\* the remembered active account id and service type are the given state's
SameActive(fetched) ==
  /\ (lastActiveMailbox = Null) = (fetched.activeMailbox = Null)
  /\ lastActiveMailbox # Null => lastActiveMailbox.id = fetched.activeMailbox.id
  /\ lastActiveServiceType = fetched.activeServiceType

\* C18: an accounts-changed notification whose state differs from the
\* remembered one only by two accounts changing places under an unchanged
\* signature starts no update and leaves the menu; a direct updateMenu call
\* always starts an update with the state it is given, which builds and
\* installs a new menu and destroys the previous one.
ReorderIgnoredDirectCallRebuilds ==
  /\ [][ pc = "idle" /\ event'.type = "mailboxesChanged"
           /\ ReorderedWithSameSignature(lastMailboxes, store'.mailboxes)
           /\ SameActive(store') =>
             /\ pc' = "idle"
             /\ calls' = <<>>
             /\ UNCHANGED << lastMailboxes, lastMenu, appMenu, menus >>
       ]_vars
  /\ [][ /\ (pc = "idle" /\ event'.type = "updateApplicationMenu" =>
               /\ pc' = "build"
               /\ lastMailboxes' = store.mailboxes
               /\ prevMenu' = lastMenu)
         /\ (event.type = "updateApplicationMenu" /\ pc = "destroy" /\ prevMenu # NoMenu =>
               prevMenu \in DOMAIN menus /\ prevMenu \notin DOMAIN menus')
       ]_vars
  /\ [](event.type = "updateApplicationMenu" /\ pc = "idle" =>
          /\ lastUpdate = "completed"
          /\ \E i \in CallsOf("buildFromTemplate") : calls[i].menu = lastMenu
          /\ \E i \in CallsOf("setApplicationMenu") : calls[i].menu = lastMenu
          /\ appMenu = lastMenu
          /\ DOMAIN menus = {lastMenu})

\* C18 witness: a notification for two accounts that changed places was
\* handled without a rebuild: the installed menu still has the old order
ReorderHandledWithoutRebuild ==
  /\ pc = "idle"
  /\ event.type = "mailboxesChanged"
  /\ ~event.changed
  /\ appMenu # NoMenu
  /\ ReorderedWithSameSignature(lastMailboxes, store.mailboxes)
  /\ SameActive(store)
  /\ calls = <<>>

\* C19: whenever a menu is installed and no handler is running, the installed
\* menu is lastMenu and it is the tree that build yields for the remembered
\* accelerators, accounts, active account and active service type.
InstallationConsistent ==
  pc = "idle" /\ appMenu # NoMenu =>
    /\ appMenu = lastMenu
    /\ appMenu \in DOMAIN menus
    /\ ~BuildThrows(lastAccelerators, lastMailboxes, lastActiveMailbox, lastActiveServiceType)
    /\ menus[appMenu] =
         build(lastAccelerators, lastMailboxes, lastActiveMailbox, lastActiveServiceType)

\* C20: an accelerators-changed notification and an accounts-changed
\* notification that finds a difference complete their update whenever they
\* arrive, and leave a live menu installed.
HandlersAlwaysComplete ==
  /\ pc = "idle"
  /\ \/ event.type = "acceleratorsChanged"
     \/ event.type = "mailboxesChanged" /\ event.changed
  => /\ lastUpdate = "completed"
     /\ appMenu # NoMenu
     /\ appMenu \in DOMAIN menus

\* the matcher has answered for the drawn input and accelerator
Matched == pResult.stage = "matched"

\* the candidates the matcher tests that can be parsed and whose every parsed
\* field the input carries with the same value
ParsedAndEqual(input, accelerator) ==
  { k \in 1..Len(Expand(accelerator)) :
      LET descriptor == acceleratorToInputKeyEvent(Expand(accelerator)[k])
      IN /\ ~Threw(descriptor)
         /\ \A f \in DOMAIN descriptor : f \in DOMAIN input /\ input[f] = descriptor[f] }

\* C21: the matcher always answers true or false: false for a falsy
\* accelerator, and otherwise true iff one of the candidates it tests can be
\* parsed and equals the input in every parsed field; a candidate whose
\* parsing throws is no match and ends nothing.
MatcherContainsFailures ==
  Matched =>
    /\ pResult.match \in BOOLEAN
    /\ Falsy(pAccel) => ~pResult.match
    /\ ~Falsy(pAccel) => (pResult.match <=> ParsedAndEqual(pInput, pAccel) # {})

\* C21 witness: the accelerator resolved for position 9, 'Ctrl+10', cannot be
\* parsed, and the matcher answered false for it
UnparsableCandidateIsNoMatch ==
  /\ Matched
  /\ pAccel = Str(<<"Ctrl", "10">>)
  /\ Threw(acceleratorToInputKeyEvent(pAccel))
  /\ ~pResult.match

\* the four remembered inputs of the installed menu
lastFields == << lastAccelerators, lastMailboxes, lastActiveMailbox, lastActiveServiceType >>

\* C22: handling an input-prevented event, whether an entry matches or not,
\* leaves the four remembered fields, lastMenu, the installed application
\* menu, the live menus and the hidden-shortcut registration as they were;
\* the four remembered fields are written by the entry of updateMenu only,
\* and lastMenu by its build only.
InputHandlingLeavesLifecycle ==
  [][ /\ (event'.type = "inputEventPrevented" /\ pc = "idle" =>
            UNCHANGED << lastFields, lastMenu, appMenu, menus, registered, pc >>)
      /\ (lastFields' # lastFields =>
            pc = "idle" /\ pc' = "build" /\ event'.type \in UpdateEvents)
      /\ (lastMenu' # lastMenu => pc = "build")
    ]_vars

\* C22 witness: an input matched an entry of the installed menu and its click
\* handler was invoked, with the menu installed and the shortcut registered
MatchedInputHandled ==
  /\ event.type = "inputEventPrevented"
  /\ pc = "idle"
  /\ clicked # <<>>
  /\ lastMenu # NoMenu
  /\ appMenu = lastMenu
  /\ registered

\* no entry of a menu or of a submenu below it is an undefined placeholder
RECURSIVE WithoutPlaceholders(_)
WithoutPlaceholders(items) ==
  \A i \in 1..Len(items) :
    /\ items[i] # Undefined
    /\ "submenu" \in DOMAIN items[i] => WithoutPlaceholders(items[i].submenu)

\* a menu as the sequence of its labels, "-" for an entry without one
Shape(items) ==
  [ i \in 1..Len(items) |-> IF "label" \in DOMAIN items[i] THEN items[i].label ELSE "-" ]

\* C23: on either platform no menu of the built tree holds an undefined
\* placeholder; on darwin the first menu has 'Services' and a separator after
\* it and the View menu has no 'Toggle Menu'; elsewhere 'Services' and its
\* separator are absent and 'Toggle Menu' is there; every other entry is at
\* its place in the order of the template.
PlatformEntriesWithoutGaps ==
  Built =>
    /\ WithoutPlaceholders(bResult.tree)
    /\ Shape(bResult.tree[1].submenu) =
         << "About", "Check for Update", "-", "Add Account", "Preferences", "-",
            "Compose Mail", "-" >>
         \o (IF isDarwin THEN << "Services", "-" >> ELSE <<>>)
         \o << "Show Window", "Hide Window", "Hide", "Hide Others", "Show All", "-", "Quit" >>
    /\ isDarwin => bResult.tree[1].submenu[9].role = "services"
    /\ Shape(bResult.tree[3].submenu) =
         << "Toggle Full Screen", "Toggle Sidebar" >>
         \o (IF isDarwin THEN <<>> ELSE << "Toggle Menu" >>)
         \o << "-", "Navigate Back", "Navigate Forward", "-", "Zoom In", "Zoom Out",
               "Reset Zoom", "-", "Reload", "Developer" >>
    /\ Shape(bResult.tree) =
         << IF isDarwin THEN "Application" ELSE "File", "Edit", "View", "Window", "Help" >>

\* C23 witness: a tree built off darwin: both placeholders of the first menu
\* are gone and 'Toggle Menu' is the third entry of the View menu
PlaceholdersFilteredOffDarwin ==
  /\ Built
  /\ ~isDarwin
  /\ Len(bResult.tree[1].submenu) = 15
  /\ LabelledOf(bResult.tree[1].submenu, "Services") = {}
  /\ LabelledOf(bResult.tree[3].submenu, "Toggle Menu") = {3}


(***************************************************************************)
(* GmailApi.composeMessage: the compose window is opened by clicking the   *)
(* page's compose button and is filled in from timers, because the page    *)
(* renders the window some time after the click.                           *)
(***************************************************************************)
\* retries > 20
MaxRetries == 20

\* cap on the populate attempts explored, above anything the retry loop reaches
MaxAttempts == 30

ComposeFields == { "recipient", "subject", "body" }

\* what the page can hold of the newest compose window: nothing, a subject box
\* outside a dialog, a dialog with only the subject box, a complete dialog
DomStates ==
  { {}, { "subject" }, { "subject", "dialog" },
    { "subject", "dialog", "body", "recipient" } }

\* GmailApi.getNewestComposeElements()
getNewestComposeElements ==
  IF "subject" \notin dom THEN [ found |-> FALSE ]
  ELSE IF "dialog" \notin dom THEN [ found |-> FALSE ]
  ELSE [ found |-> TRUE, subject |-> TRUE, dialog |-> TRUE,
         body |-> "body" \in dom, recipient |-> "recipient" \in dom ]

\* GmailApi.populateNewestComposeWindow(recipient, subject, body): the answer,
\* the elements written to and the element whose focus is scheduled
populateNewestComposeWindow(given) ==
  LET elements == getNewestComposeElements
  IN IF ~elements.found
       THEN [ didPopulate |-> FALSE, filled |-> {}, focusOn |-> "none" ]
       ELSE LET r == "recipient" \in given /\ elements.recipient
                s == "subject" \in given /\ elements.subject
                b == "body" \in given /\ elements.body
            IN [ didPopulate |-> TRUE,
                 filled |-> { f \in ComposeFields :
                                \/ f = "recipient" /\ r
                                \/ f = "subject" /\ s
                                \/ f = "body" /\ b },
                 focusOn |-> IF b \/ s THEN "body"
                             ELSE IF r THEN "subject"
                             ELSE "none" ]

\* the state a populate attempt leaves: elements written, focus timer scheduled
Populated(p) ==
  /\ attempts' = Append(attempts, p.didPopulate)
  /\ filled' = filled \cup p.filled
  /\ focus' = IF p.focusOn # "none"
                THEN [ focus EXCEPT !.scheduled = p.focusOn ]
                ELSE focus

\* the state in which composeMessage(data) is called
InitCompose ==
  /\ Constructed
  /\ isDarwin = FALSE
  /\ accounts = "complete"
  /\ store = [ mailboxes |-> List(<<>>), activeMailbox |-> Null, activeServiceType |-> DEFAULT ]
  /\ MatcherIdle
  /\ BuilderIdle
  /\ composeButton \in BOOLEAN
  /\ data \in SUBSET ComposeFields
  /\ dom \in DomStates
  /\ cpc = "call"
  /\ retries = 0
  /\ retry = "none"
  /\ attempts = <<>>
  /\ filled = {}
  /\ focus = [ scheduled |-> "none", on |-> "none" ]

\* GmailApi.composeMessage(data)
composeMessage ==
  /\ cpc = "call"
  /\ cpc' = IF ~composeButton THEN "returned"
            ELSE IF data # {} THEN "timeout"
            ELSE "returned"
  /\ UNCHANGED << composeButton, data, dom, retries, retry, attempts, filled, focus >>
  /\ UNCHANGED << lifecycleVars, pureVars >>

\* the page renders, re-renders or closes the compose window
DomChanges ==
  /\ cpc = "timeout" \/ retry = "running"
  /\ dom' \in DomStates \ { dom }
  /\ UNCHANGED << composeButton, data, cpc, retries, retry, attempts, filled, focus >>
  /\ UNCHANGED << lifecycleVars, pureVars >>

RetryIntervalUntilPopulated ==
  /\ retry = "running"
  /\ Len(attempts) < MaxAttempts
  /\ LET p == populateNewestComposeWindow(data)
     IN /\ retries' = retries + 1
        /\ Populated(p)
        /\ retry' = IF p.didPopulate THEN "cleared" ELSE "running"
  /\ UNCHANGED << composeButton, data, dom, cpc >>
  /\ UNCHANGED << lifecycleVars, pureVars >>

\* the callback of setTimeout(..., 1): the first populate attempt
PopulateTimeout ==
  /\ cpc = "timeout"
  /\ LET p == populateNewestComposeWindow(data)
     IN /\ Populated(p)
        /\ IF ~p.didPopulate
             THEN retries' = 0 /\ retry' = "running"
             ELSE UNCHANGED << retries, retry >>
  /\ cpc' = "fired"
  /\ UNCHANGED << composeButton, data, dom >>
  /\ UNCHANGED << lifecycleVars, pureVars >>

\* the callback of setInterval(..., 50): one retry
RetryInterval ==
  /\ retry = "running"
  /\ Len(attempts) < MaxAttempts
  /\ LET p == populateNewestComposeWindow(data)
     IN /\ retries' = retries + 1
        /\ Populated(p)
        /\ retry' = IF p.didPopulate \/ retries' > MaxRetries THEN "cleared" ELSE "running"
  /\ UNCHANGED << composeButton, data, dom, cpc >>
  /\ UNCHANGED << lifecycleVars, pureVars >>

\* the callback of setTimeout(() => focusOn.focus(), 500)
FocusTimeout ==
  /\ focus.scheduled # "none"
  /\ focus' = [ scheduled |-> "none", on |-> focus.scheduled ]
  /\ UNCHANGED << composeButton, data, dom, cpc, retries, retry, attempts, filled >>
  /\ UNCHANGED << lifecycleVars, pureVars >>

NextCompose ==
  \/ composeMessage
  \/ DomChanges
  \/ PopulateTimeout
  \/ RetryInterval
  \/ FocusTimeout

\* a timer that is pending fires: the call, the timeout, the interval while it
\* is not cleared, the focus timer
SpecCompose ==
  /\ InitCompose
  /\ [][NextCompose]_vars
  /\ WF_vars(composeMessage)
  /\ WF_vars(PopulateTimeout)
  /\ WF_vars(RetryInterval)
  /\ WF_vars(FocusTimeout)

\* the populate attempts that answered true
Successes == { i \in 1..Len(attempts) : attempts[i] }

\* the retry loop is over: no timer of composeMessage is pending
ComposeSettled == cpc \in { "returned", "fired" } /\ retry # "running"

RetryLoopBounded ==
  /\ Len(attempts) <= MaxRetries + 2
  /\ retries <= MaxRetries + 1
  /\ \A i \in Successes : i = Len(attempts)
  /\ retry = "running" => Successes = {} /\ retries <= MaxRetries
  /\ retry # "none" => /\ Len(attempts) = retries + 1
                       /\ attempts[1] = FALSE
  /\ retry = "cleared" => Successes # {} \/ retries = MaxRetries + 1
  /\ cpc = "fired" /\ attempts[1] => retry = "none" /\ Len(attempts) = 1
  /\ ~composeButton \/ data = {} => retry = "none" /\ attempts = <<>>

\* C24: the populate retry loop of composeMessage always ends. The interval is
\* running only while no attempt has succeeded and retries is at most 20, it is
\* cleared by the attempt that succeeds or by the 21st retry, so at most 22
\* attempts are made and none after a success; no interval is started when the
\* first attempt succeeds, when no recipient, subject or body is given, or when
\* there is no compose button; and in every run the timers of composeMessage
\* are eventually all gone for good.
RetryLoopTerminates == []RetryLoopBounded /\ <>[]ComposeSettled

\* all 22 attempts failed and the interval was cleared by the 21st retry
RetriesExhausted ==
  /\ Len(attempts) = MaxRetries + 2
  /\ Successes = {}
  /\ retries = MaxRetries + 1
  /\ retry = "cleared"

====
